---- MODULE Spec2Model ----
(***************************************************************************)
(* Sea-urchin ecosystem simulation engine (src/unnamed/part_000, the       *)
(* randomized-maturity variant with the accumulator-based harvest count).  *)
(*                                                                         *)
(* Numbers.  Health, energy, algae level and every rate are kept in        *)
(* thousandths (Milli), so 100 health is 100000 and the 0.1 energy         *)
(* decrement is 100; the arithmetic is exact, where the program uses       *)
(* IEEE doubles.  Positions and velocities are whole world units.          *)
(* Math.random() is a nondeterministic choice; a comparison                *)
(* Math.random() < p has one outcome when p <= 0 or p >= 1.                *)
(*                                                                         *)
(* Objects.  The agents object held by the React state and the one held by *)
(* agentsRef are records of id sequences; the urchin, harvester and coral  *)
(* objects they share live in the stores urchinObj, harvesterObj and       *)
(* coralObj.  Ids are allocated fresh and never reused.                    *)
(*                                                                         *)
(* Scheduling.  A callback of the loop (loop, turboLoop) runs its calls    *)
(* of stepSimulation to completion; batchLeft is its position.  The state  *)
(* updates a step queues (setTick, setStats, setHistory,                   *)
(* setDetailedHistory) are held in pending and applied by Render, which    *)
(* also runs the effect that copies the tick state into tickRef; React     *)
(* renders before the next callback of the loop or the next click.         *)
(* setIsRunning is applied at once, together with the effect that copies   *)
(* it into playingRef.  A state update made by a click or a slider is      *)
(* rendered and its effects run before the handler returns to the event    *)
(* loop; the update the 50 ms timer of applyPreset makes is rendered in a  *)
(* later task and its agentsRef effect in a task after that, so callbacks  *)
(* of the loop can run in between (refIsState is false meanwhile).         *)
(***************************************************************************)
EXTENDS Integers, Sequences, FiniteSets, TLC

(* ------------------------------------------------------------------ *)
(* Program constants                                                  *)
(* ------------------------------------------------------------------ *)
Milli == 1000

width == 800

height == 600

cellSize == 20

gridWidth == width \div cellSize

gridHeight == height \div cellSize

MinMaturity == 54

MaxMaturity == 170

MaxInitialAge == 199

InitialEnergy == 50 * Milli

OffspringEnergy == 30 * Milli

EnergyDecrement == Milli \div 10

SpawnEnergy == 60 * Milli

SpawnCost == 20 * Milli

SpawnCooldown == 50

FullHealth == 100 * Milli

StatsPeriod == 5

MinHistoryLimit == 200

DefaultExpectedTicks == 10000

(* ------------------------------------------------------------------ *)
(* Exploration bounds                                                 *)
(* ------------------------------------------------------------------ *)
\* Steps explored after a reset in a run with random outcomes or user operations.
MaxTick == 3

\* Steps explored in a run whose parameters leave no random outcome to the
\* step (speeds 0, probabilities 0 or 1) and in which the user does nothing.
MaxTickDeep == 360

\* User operations (reset, population resizes) explored in one run.
MaxOps == 1

\* Largest urchin population explored.
MaxUrchins == 4

\* Largest harvester population explored.
MaxHarvesters == 2

\* How far below and above half the grid's cell count the crowded worlds go
CrowdMargin == 1

(* ------------------------------------------------------------------ *)
(* Small helpers                                                      *)
(* ------------------------------------------------------------------ *)
Min(a, b) == IF a < b THEN a ELSE b

Max(a, b) == IF a > b THEN a ELSE b

Abs(a) == IF a < 0 THEN -a ELSE a

\* Math.ceil(a / b) for a >= 0, b > 0
Ceil(a, b) == (a + b - 1) \div b

\* x * num / den for a rate x in thousandths (exact for the rates explored)
Scaled(x, num, den) == (x * num) \div den

RECURSIVE SumSeq(_)
SumSeq(s) == IF s = <<>> THEN 0 ELSE Head(s) + SumSeq(Tail(s))

Range(s) == {s[i] : i \in DOMAIN s}

\* s.slice(0, n): the first n elements of s, all of s if it is shorter.
SliceFirst(s, n) == SubSeq(s, 1, Min(n, Len(s)))

\* Array.prototype.slice(-n)
SliceLast(s, n) == IF Len(s) <= n THEN s ELSE SubSeq(s, Len(s) - n + 1, Len(s))

\* The outcomes of Math.random() < p, p in thousandths.
Chance(p) == IF p <= 0 THEN {FALSE} ELSE IF p >= Milli THEN {TRUE} ELSE BOOLEAN

\* dx*dx + dy*dy; Math.sqrt(that) < r is compared as that < r*r
DistSq(ax, ay, bx, by) == (ax - bx) * (ax - bx) + (ay - by) * (ay - by)

Within(ax, ay, bx, by, r) == DistSq(ax, ay, bx, by) < r * r

\* A JavaScript quotient a / b kept as a fraction: 0 / 0 is NaN.
Quotient(a, b) == [num |-> a, den |-> b]

IsNaN(q) == q.num = 0 /\ q.den = 0

Number(n) == Quotient(n, 1)

IsZero(q) == q.num = 0 /\ q.den # 0

(* ------------------------------------------------------------------ *)
(* Parameters (useState params), rates in thousandths                 *)
(* ------------------------------------------------------------------ *)
\* The defaults of the params state.  Speeds are whole world units a step: the
\* program's defaults 0.3 and 1.5 are off the integer lattice, 0 and 20 are explored.
DefaultParams ==
  [ initialUrchins |-> 16,
    reproductionRate |-> 20,
    grazingRate |-> 400,
    urchinSpeed |-> 0,
    spawnRadius |-> 40,
    harvesterCount |-> 3,
    harvestingRate |-> 1000,
    harvesterSpeed |-> 0,
    harvestRadius |-> 30,
    initialCoralCoverage |-> 23,
    coralHealingRate |-> 15,
    coralDegradationThreshold |-> 30 * Milli,
    algaeGrowthRate |-> 25,
    maxAlgaeDensity |-> 900,
    speedMultiplier |-> 1,
    turboMode |-> FALSE,
    tickLimit |-> 1000,
    enableTickLimit |-> FALSE,
    dataRecordingFrequency |-> 5 ]

\* Deterministic run: every spawn attempt and every harvest attempt succeeds,
\* nobody moves, one graze takes 35 health.
DeterministicParams ==
  [ DefaultParams EXCEPT
      !.initialUrchins = 2, !.harvesterCount = 1,
      !.reproductionRate = Milli, !.harvestingRate = 10 * Milli,
      !.grazingRate = 35 * Milli, !.coralHealingRate = 0,
      !.initialCoralCoverage = 100,
      !.algaeGrowthRate = 500, !.dataRecordingFrequency = 25 ]

\* Random run: spawn and harvest attempts may fail, one graze takes 75 health
\* and a coral left alone heals 4 a step.
RandomParams ==
  [ DefaultParams EXCEPT
      !.initialUrchins = 1, !.harvesterCount = 1,
      !.grazingRate = 75 * Milli, !.coralHealingRate = 4 * Milli,
      !.algaeGrowthRate = Milli, !.dataRecordingFrequency = 1 ]

\* A reef without corals, two harvesters that take any adult in reach, a point
\* recorded at every tick; the tick limit is set to the slider's minimum and
\* not enabled.
BarrenParams ==
  [ DefaultParams EXCEPT
      !.initialUrchins = 1, !.harvesterCount = 2,
      !.reproductionRate = Milli, !.harvestingRate = 10 * Milli,
      !.initialCoralCoverage = 0, !.dataRecordingFrequency = 1,
      !.tickLimit = 100 ]

\* Three steps per animation frame, a point every fifth tick, the run limited
\* to five ticks.
BatchedParams ==
  [ BarrenParams EXCEPT
      !.harvesterCount = 0, !.speedMultiplier = 3, !.dataRecordingFrequency = 5,
      !.enableTickLimit = TRUE, !.tickLimit = 5 ]

\* Turbo mode: ten steps per timer callback, of which every fifth records a point.
TurboParams ==
  [ BarrenParams EXCEPT !.harvesterCount = 0, !.turboMode = TRUE ]

\* Moving agents.
MovingParams ==
  [ DefaultParams EXCEPT
      !.initialUrchins = 1, !.harvesterCount = 0,
      !.urchinSpeed = 20, !.harvesterSpeed = 20,
      !.harvestingRate = 10 * Milli, !.initialCoralCoverage = 0,
      !.dataRecordingFrequency = 1 ]

ParamChoices ==
  {DeterministicParams, RandomParams, BarrenParams, MovingParams, BatchedParams, TurboParams}

\* No call of Math.random() can change the outcome of a step.
NoRandomOutcome(p) ==
  /\ p.urchinSpeed = 0
  /\ p.harvesterSpeed = 0
  /\ Cardinality(Chance(p.reproductionRate)) = 1
  /\ Cardinality(Chance(Scaled(p.harvestingRate, 1, 10))) = 1

(* ------------------------------------------------------------------ *)
(* Outcomes of the random draws that are explored                     *)
(* ------------------------------------------------------------------ *)
\* Math.random() * width, Math.random() * height for an urchin
UrchinSpots == {<<5, 40>>, <<30, 30>>}

\* Math.random() * width, Math.random() * height for a harvester
HarvesterSpots == {<<30, 55>>, <<300, 300>>}

\* Grid cells (x, y) that may hold a coral when 0 < coverage < 100
CoralCells == {<<0, 1>>, <<1, 1>>}

\* The pairs of Math.floor(Math.random() * 200) (the age) and
\* Math.floor(Math.random() * (170 - 54 + 1)) + 54 (the maturity time):
\* a juvenile that matures soonest and an adult.
AgeMaturityDraws == {<<0, MinMaturity>>, <<MaxInitialAge, MaxMaturity>>}

\* The maturity times drawn for a newborn.
MaturityDraws == {MinMaturity}

\* The pairs of (Math.random() - 0.5) * speed drawn for vx and vy
VelocityDraws(speed) ==
  IF speed = 0 THEN {<<0, 0>>}
  ELSE {<< -(speed \div 2), speed \div 2 - 1 >>, << speed \div 2 - 1, -(speed \div 2) >>}

\* The pairs of (Math.random() - 0.5) * speed * 0.1 drawn in moveAgent
PerturbationDraws(speed) ==
  IF speed = 0 THEN {<<0, 0>>}
  ELSE {<< -(speed \div 20), speed \div 20 >>}

\* The pairs of (Math.random() - 0.5) * 20 drawn for a newborn's offset
JitterDraws == {<< -10, 9 >>}

(* ------------------------------------------------------------------ *)
(* State                                                              *)
(* ------------------------------------------------------------------ *)
VARIABLES
  params,          \* useState params
  agents,          \* useState agents: [seaUrchins, harvesters, corals] of ids
  agentsRef,       \* agentsRef.current
  refIsState,      \* agentsRef.current === agents (no agentsRef effect pending)
  urchinObj,       \* the urchin objects reachable from agents or agentsRef
  harvesterObj,    \* the harvester objects created since the last reset
  coralObj,        \* the coral objects
  nextId,          \* object identities handed out so far
  tickRef,         \* tickRef.current
  tick,            \* useState tick
  statsAccumRef,   \* statsAccumRef.current
  stats,           \* useState stats
  history,         \* useState history
  detailedHistory, \* useState detailedHistory
  isRunning,       \* useState isRunning
  playingRef,      \* playingRef.current
  batchLeft,       \* calls of stepSimulation the running loop callback has still to make
  pending,         \* setTick, setStats, setHistory and setDetailedHistory calls not yet rendered
  startTimer,      \* the Play button's setTimeout(() => setIsRunning(true), 100) is waiting
  presetTimer,     \* the counts of applyPreset's waiting setTimeout(updateHarvesterCount, 50)
  recordedAt,      \* for each retained history point, the tick of the step that queued it
  lastStep,        \* what stepSimulation did to the population, if it was the last action
  lastOp,          \* the last action, its argument, whether the run was on
  opCount          \* user operations so far, the ones after MaxTick apart

vars ==
  << params, agents, agentsRef, refIsState, urchinObj, harvesterObj, coralObj,
     nextId, tickRef, tick, statsAccumRef, stats, history, detailedHistory,
     isRunning, playingRef, batchLeft, pending, startTimer, presetTimer, recordedAt,
     lastStep, lastOp, opCount >>

EmptyStats ==
  [ juvenileUrchins |-> 0, adultUrchins |-> 0, totalUrchins |-> 0,
    healthyCorals |-> 0, degradedCorals |-> 0, deadCorals |-> 0,
    algaeCoverage |-> Number(0), harvestedUrchins |-> 0 ]

EmptyHistory ==
  [ ticks |-> <<>>, urchinPop |-> <<>>, coralHealth |-> <<>>, algaeCoverage |-> <<>> ]

EmptyDetailedHistory ==
  [ healthyCorals |-> <<>>, degradedCorals |-> <<>>, deadCorals |-> <<>>,
    juvenileUrchins |-> <<>>, adultUrchins |-> <<>>, harvestedTotal |-> <<>> ]

\* adults counts the adults that survived the cull, grown is the array handed to
\* harvestUrchins and pool holds its urchin objects as they were at that call.
NoStep ==
  [ called |-> FALSE, before |-> 0, starved |-> 0, born |-> 0, harvested |-> 0,
    adults |-> 0, grown |-> <<>>, pool |-> <<>> ]

\* Nothing waits for the next render.
NoPending == [ tick |-> <<>>, stats |-> <<>>, points |-> <<>> ]

\* The action named name with the argument n, begun while isRunning was as it
\* is.  For initializeSimulation n tells the caller: 0 the Reset button or the
\* mount, 1 the Play button at the tick limit, 2 a preset button.
Op(name, n) == [ name |-> name, n |-> n, running |-> isRunning ]

(* ------------------------------------------------------------------ *)
(* Object stores                                                      *)
(* ------------------------------------------------------------------ *)
\* The ids base+1 .. base+n, in order, for n new objects.
NewIds(base, n) == [i \in 1..n |-> base + i]

\* The store entries of the new objects recs, allocated after base.
NewObjects(base, recs) == [id \in {base + i : i \in 1..Len(recs)} |-> recs[id - base]]

Restrict(f, S) == [id \in S \cap DOMAIN f |-> f[id]]

\* The objects of a store that agents or agentsRef still reach.
Reachable(store, a, b) == Restrict(store, Range(a) \cup Range(b))

(* ------------------------------------------------------------------ *)
(* initializeCorals, initializeUrchins, initializeHarvesters          *)
(* ------------------------------------------------------------------ *)
Coral(cell) ==
  [ cell |-> cell,
    x |-> cell[1] * cellSize + cellSize \div 2,
    y |-> cell[2] * cellSize + cellSize \div 2,
    health |-> FullHealth,
    algaeLevel |-> 0,
    status |-> "healthy" ]

\* The first cell of S in the order of the nested loops (x outer, y inner).
FirstCell(S) ==
  CHOOSE c \in S : \A d \in S : c[1] < d[1] \/ (c[1] = d[1] /\ c[2] <= d[2])

RECURSIVE CoralsOf(_)
CoralsOf(S) ==
  IF S = {} THEN <<>>
  ELSE <<Coral(FirstCell(S))>> \o CoralsOf(S \ {FirstCell(S)})

\* The coral arrays initializeCorals can return: a cell is taken when
\* Math.random() < coverage / 100.
initializeCorals(p) ==
  IF p.initialCoralCoverage <= 0 THEN {<<>>}
  ELSE IF p.initialCoralCoverage >= 100 THEN {CoralsOf(CoralCells)}
  ELSE {CoralsOf(S) : S \in SUBSET CoralCells}

\* Urchins whose stage is drawn at random, whatever their age.
FreshUrchinsAnyStage(p) ==
  { [ x |-> spot[1], y |-> spot[2], vx |-> v[1], vy |-> v[2],
      age |-> am[1], maturityTime |-> am[2], isAdult |-> stage,
      energy |-> InitialEnergy, lastSpawn |-> 0 ] :
    spot \in UrchinSpots, v \in VelocityDraws(p.urchinSpeed), am \in AgeMaturityDraws,
    stage \in BOOLEAN }

\* The urchin objects one iteration of initializeUrchins / updateUrchinCount can push.
FreshUrchins(p) ==
  { [ x |-> spot[1], y |-> spot[2], vx |-> v[1], vy |-> v[2],
      age |-> am[1], maturityTime |-> am[2], isAdult |-> am[1] >= am[2],
      energy |-> InitialEnergy, lastSpawn |-> 0 ] :
    spot \in UrchinSpots, v \in VelocityDraws(p.urchinSpeed), am \in AgeMaturityDraws }

initializeUrchins(p) == [1..p.initialUrchins -> FreshUrchins(p)]

\* The harvester objects one iteration of initializeHarvesters / updateHarvesterCount can push.
FreshHarvesters(p) ==
  { [ x |-> spot[1], y |-> spot[2], vx |-> v[1], vy |-> v[2], harvestCount |-> 0 ] :
    spot \in HarvesterSpots, v \in VelocityDraws(p.harvesterSpeed) }

initializeHarvesters(p) == [1..p.harvesterCount -> FreshHarvesters(p)]

(* ------------------------------------------------------------------ *)
(* initializeSimulation                                               *)
(* ------------------------------------------------------------------ *)
\* The agents object initializeSimulation builds from the drawn urchins us,
\* harvesters hs and corals cs, the new objects taking the ids after base.
NewAgents(base, us, hs, cs) ==
  [ seaUrchins |-> NewIds(base, Len(us)),
    harvesters |-> NewIds(base + Len(us), Len(hs)),
    corals |-> NewIds(base + Len(us) + Len(hs), Len(cs)) ]

\* A reset that leaves statsAccumRef.current alone.
initializeSimulationKeepingCount(us, hs, cs) ==
  /\ agents' = NewAgents(nextId, us, hs, cs)
  /\ agentsRef' = NewAgents(nextId, us, hs, cs)
  /\ refIsState' = TRUE
  /\ urchinObj' = NewObjects(nextId, us)
  /\ harvesterObj' = NewObjects(nextId + Len(us), hs)
  /\ coralObj' = NewObjects(nextId + Len(us) + Len(hs), cs)
  /\ nextId' = nextId + Len(us) + Len(hs) + Len(cs)
  /\ tick' = 0
  /\ tickRef' = 0
  /\ history' = EmptyHistory
  /\ detailedHistory' = EmptyDetailedHistory
  /\ stats' = EmptyStats
  /\ statsAccumRef' = statsAccumRef
  /\ pending' = NoPending
  /\ recordedAt' = <<>>
  /\ isRunning' = FALSE
  /\ playingRef' = FALSE

\* initializeSimulation together with the agentsRef effect of the render it
\* causes.  Every caller is a click handler or the mount effect, and React runs
\* the effects of such an update before it returns to the event loop.
initializeSimulation(us, hs, cs) ==
  /\ agents' = NewAgents(nextId, us, hs, cs)
  /\ agentsRef' = NewAgents(nextId, us, hs, cs)
  /\ refIsState' = TRUE
  /\ urchinObj' = NewObjects(nextId, us)
  /\ harvesterObj' = NewObjects(nextId + Len(us), hs)
  /\ coralObj' = NewObjects(nextId + Len(us) + Len(hs), cs)
  /\ nextId' = nextId + Len(us) + Len(hs) + Len(cs)
  /\ tick' = 0
  /\ tickRef' = 0
  /\ history' = EmptyHistory
  /\ detailedHistory' = EmptyDetailedHistory
  /\ stats' = EmptyStats
  /\ statsAccumRef' = [harvestedCount |-> 0]
  /\ pending' = NoPending
  /\ recordedAt' = <<>>
  /\ isRunning' = FALSE
  /\ playingRef' = FALSE

(* ------------------------------------------------------------------ *)
(* moveAgent                                                          *)
(* ------------------------------------------------------------------ *)
\* The least r with r * r >= n
SqrtCeil(n) == CHOOSE r \in 0..n : r * r >= n /\ (r = 0 \/ (r - 1) * (r - 1) < n)

\* a / b rounded toward zero, b > 0
TruncDiv(a, b) == IF a >= 0 THEN a \div b ELSE -((-a) \div b)

\* The speed limit: a velocity longer than maxSpeed is scaled down to maxSpeed
\* (rounded toward zero on the integer lattice).
LimitSpeed(vx, vy, maxSpeed) ==
  IF vx * vx + vy * vy > maxSpeed * maxSpeed
  THEN << TruncDiv(vx * maxSpeed, SqrtCeil(vx * vx + vy * vy)),
          TruncDiv(vy * maxSpeed, SqrtCeil(vx * vx + vy * vy)) >>
  ELSE << vx, vy >>

\* moveAgent(agent, speed) with the two random perturbations px, py.
moveAgent(agent, speed, px, py) ==
  LET v == LimitSpeed(agent.vx + px, agent.vy + py, speed * 2)
      x1 == agent.x + v[1]
      y1 == agent.y + v[2]
      bounceX == x1 < 0 \/ x1 > width
      bounceY == y1 < 0 \/ y1 > height
  IN [ agent EXCEPT
         !.vx = IF bounceX THEN -v[1] ELSE v[1],
         !.vy = IF bounceY THEN -v[2] ELSE v[2],
         !.x = IF bounceX THEN Max(0, Min(width, x1)) ELSE x1,
         !.y = IF bounceY THEN Max(0, Min(height, y1)) ELSE y1 ]

(* ------------------------------------------------------------------ *)
(* grazeCorals                                                        *)
(* ------------------------------------------------------------------ *)
\* The condition under which urchin u grazes coral c.
Grazes(u, c) == Within(u.x, u.y, c.x, c.y, cellSize) /\ c.status # "dead"

\* A graze that does not pin the health of a coral it kills to 0.
GrazedCoralUnpinned(c, p) ==
  LET h == c.health - p.grazingRate
  IN [ c EXCEPT
         !.health = h,
         !.status = IF h <= 0 THEN "dead"
                    ELSE IF h < p.coralDegradationThreshold THEN "degraded"
                    ELSE @,
         !.algaeLevel = Max(0, @ - Scaled(p.grazingRate, 3, 10)) ]

\* The coral after one graze.
GrazedCoral(c, p) ==
  LET h == c.health - p.grazingRate
  IN [ c EXCEPT
         !.health = IF h <= 0 THEN 0 ELSE h,
         !.status = IF h <= 0 THEN "dead"
                    ELSE IF h < p.coralDegradationThreshold THEN "degraded"
                    ELSE @,
         !.algaeLevel = Max(0, @ - Scaled(p.grazingRate, 3, 10)) ]

\* grazeCorals(urchin, corals): the urchin and the coral store afterwards.
grazeCorals(u, coralIds, cs, p) ==
  LET grazed == {id \in Range(coralIds) : Grazes(u, cs[id])}
  IN [ urchin |-> [u EXCEPT !.energy = @ + Cardinality(grazed) * Scaled(p.grazingRate, 5, 10)],
       corals |-> [id \in DOMAIN cs |->
                     IF id \in grazed THEN GrazedCoral(cs[id], p) ELSE cs[id]] ]

\* An urchin's turn that recomputes the stage as u.isAdult = (u.age === u.maturityTime).
MovedAndAgedRecomputed(u, speed, px, py) ==
  LET m == moveAgent(u, speed, px, py)
  IN [ m EXCEPT
         !.age = @ + 1,
         !.isAdult = (m.age + 1 = m.maturityTime),
         !.energy = Max(0, @ - EnergyDecrement) ]

\* One urchin's turn in the first loop of stepSimulation, before grazing.
MovedAndAged(u, speed, px, py) ==
  LET m == moveAgent(u, speed, px, py)
  IN [ m EXCEPT
         !.age = @ + 1,
         !.isAdult = IF m.age + 1 >= m.maturityTime THEN TRUE ELSE @,
         !.energy = Max(0, @ - EnergyDecrement) ]

\* The first loop of stepSimulation from the k-th urchin on: the urchin and coral
\* stores afterwards.  perturb[k] is the k-th urchin's pair of perturbations.
RECURSIVE MoveAgeGrazeSpan(_, _, _, _, _, _, _)
MoveAgeGrazeSpan(lo, hi, w, perturb, p, us, cs) ==
  IF lo > hi THEN [urchins |-> us, corals |-> cs]
  ELSE IF lo = hi
  THEN LET id == w.seaUrchins[lo]
           g == grazeCorals(MovedAndAged(us[id], p.urchinSpeed, perturb[lo][1], perturb[lo][2]),
                            w.corals, cs, p)
       IN [urchins |-> [us EXCEPT ![id] = g.urchin], corals |-> g.corals]
  ELSE LET mid == (lo + hi) \div 2
       IN CHOOSE r \in { MoveAgeGrazeSpan(mid + 1, hi, w, perturb, p, done.urchins, done.corals) :
                          done \in {MoveAgeGrazeSpan(lo, mid, w, perturb, p, us, cs)} } : TRUE

\* The loop from the k-th urchin on.
MoveAgeGraze(k, w, perturb, p, us, cs) ==
  MoveAgeGrazeSpan(k, Len(w.seaUrchins), w, perturb, p, us, cs)

\* A filter that keeps the urchins whose energy is not negative.
SurvivorsOfAnyEnergy(ids, us) == SelectSeq(ids, LAMBDA id : us[id].energy >= 0)

\* The filter that removes starved urchins.
Survivors(ids, us) == SelectSeq(ids, LAMBDA id : us[id].energy > 0)

(* ------------------------------------------------------------------ *)
(* reproduceUrchins                                                   *)
(* ------------------------------------------------------------------ *)
Adults(ids, us) == SelectSeq(ids, LAMBDA id : us[id].isAdult)

\* nearbyAdults.length > 0 for the adult id
HasNearbyAdult(id, adults, us, p) ==
  \E other \in Range(adults) :
    /\ other # id
    /\ Within(us[id].x, us[id].y, us[other].x, us[other].y, p.spawnRadius)

\* A spawn test that passes as soon as the cooldown's fifty ticks are over.
MaySpawnOnFiftieth(id, adults, us, currentTick, p) ==
  /\ us[id].energy > SpawnEnergy
  /\ currentTick - us[id].lastSpawn >= SpawnCooldown
  /\ HasNearbyAdult(id, adults, us, p)

\* The adult id reaches the call of Math.random() that decides its spawn.
MaySpawn(id, adults, us, currentTick, p) ==
  /\ us[id].energy > SpawnEnergy
  /\ currentTick - us[id].lastSpawn > SpawnCooldown
  /\ HasNearbyAdult(id, adults, us, p)

\* The random draws of one spawn attempt: whether Math.random() < reproductionRate
\* and, if so, the newborn's maturity time, jitter and velocity.
SpawnDraws(p) ==
  (IF TRUE \in Chance(p.reproductionRate)
   THEN { [ spawn |-> TRUE, maturityTime |-> m, jx |-> j[1], jy |-> j[2],
            vx |-> v[1], vy |-> v[2] ] :
          m \in MaturityDraws, j \in JitterDraws,
          v \in VelocityDraws(p.urchinSpeed) }
   ELSE {})
  \cup
  (IF FALSE \in Chance(p.reproductionRate)
   THEN { [ spawn |-> FALSE, maturityTime |-> MinMaturity, jx |-> 0, jy |-> 0,
            vx |-> 0, vy |-> 0 ] }
   ELSE {})

\* A newborn that is an adult from its first step.
NewbornGrownUp(u, d, currentTick) ==
  [ x |-> u.x + d.jx, y |-> u.y + d.jy, vx |-> d.vx, vy |-> d.vy,
    age |-> 0, maturityTime |-> d.maturityTime, isAdult |-> TRUE,
    energy |-> OffspringEnergy, lastSpawn |-> currentTick ]

\* The object pushed to newUrchins for the parent u.
Newborn(u, d, currentTick) ==
  [ x |-> u.x + d.jx, y |-> u.y + d.jy, vx |-> d.vx, vy |-> d.vy,
    age |-> 0, maturityTime |-> d.maturityTime, isAdult |-> FALSE,
    energy |-> OffspringEnergy, lastSpawn |-> currentTick ]

\* A parent that spawns at no cost.
SpawnedForFree(u, currentTick) == [u EXCEPT !.lastSpawn = currentTick]

\* The parent after a spawn.
Spawned(u, currentTick) ==
  [u EXCEPT !.energy = @ - SpawnCost, !.lastSpawn = currentTick]

\* The ids of the adults that spawn, in the order of the adults array.
Parents(adults, us, currentTick, p, draws) ==
  SelectSeq(adults, LAMBDA id : MaySpawn(id, adults, us, currentTick, p) /\ draws[id].spawn)

\* reproduceUrchins(urchins, currentTick): the newborns, in order, and the
\* urchin store with the parents updated.
reproduceUrchins(ids, us, currentTick, p, draws) ==
  LET adults == Adults(ids, us)
      parents == Parents(adults, us, currentTick, p, draws)
  IN [ newUrchins |-> [k \in 1..Len(parents) |->
                         Newborn(us[parents[k]], draws[parents[k]], currentTick)],
       urchins |-> [id \in DOMAIN us |->
                      IF id \in Range(parents) THEN Spawned(us[id], currentTick) ELSE us[id]] ]

(* ------------------------------------------------------------------ *)
(* harvestUrchins                                                     *)
(* ------------------------------------------------------------------ *)
\* Targets that need not be adults.
TargetsOfAnyStage(h, remaining, us, p) ==
  SelectSeq(remaining,
            LAMBDA id : Within(h.x, h.y, us[id].x, us[id].y, p.harvestRadius))

\* The targets of harvester h among the remaining urchins, in array order.
Targets(h, remaining, us, p) ==
  SelectSeq(remaining,
            LAMBDA id : us[id].isAdult /\ Within(h.x, h.y, us[id].x, us[id].y, p.harvestRadius))

\* targets[0] of an array that was not sorted.
FirstTarget(h, targets, us) == targets[1]

\* targets[0] after the (stable) sort by distance to the harvester.
Nearest(h, targets, us) ==
  targets[CHOOSE i \in DOMAIN targets : \A j \in DOMAIN targets :
            \/ DistSq(h.x, h.y, us[targets[i]].x, us[targets[i]].y)
                 < DistSq(h.x, h.y, us[targets[j]].x, us[targets[j]].y)
            \/ /\ DistSq(h.x, h.y, us[targets[i]].x, us[targets[i]].y)
                    = DistSq(h.x, h.y, us[targets[j]].x, us[targets[j]].y)
               /\ i <= j]

\* A splice that leaves the array as it was (the index of a copy, not of the array).
SplicedNothing(remaining, id) == remaining

\* remainingUrchins.splice(remainingUrchins.indexOf(id), 1)
Spliced(remaining, id) ==
  LET idx == CHOOSE i \in DOMAIN remaining :
               remaining[i] = id /\ \A j \in 1..(i - 1) : remaining[j] # id
  IN SubSeq(remaining, 1, idx - 1) \o SubSeq(remaining, idx + 1, Len(remaining))

\* A harvester's turn that forgets harvester.harvestCount++.
HarvesterTurnUncounted(h, remaining, us, p, lucky) ==
  LET targets == Targets(h, remaining, us, p)
  IN IF Len(targets) > 0 /\ lucky
     THEN [ remaining |-> Spliced(remaining, Nearest(h, targets, us)),
            harvester |-> h,
            harvested |-> 1 ]
     ELSE [ remaining |-> remaining, harvester |-> h, harvested |-> 0 ]

\* One harvester's turn: the remaining urchins, the harvester and the number
\* it harvested.  lucky is the outcome of Math.random() < harvestingRate * 0.1.
HarvesterTurn(h, remaining, us, p, lucky) ==
  LET targets == Targets(h, remaining, us, p)
  IN IF Len(targets) > 0 /\ lucky
     THEN [ remaining |-> Spliced(remaining, Nearest(h, targets, us)),
            harvester |-> [h EXCEPT !.harvestCount = @ + 1],
            harvested |-> 1 ]
     ELSE [ remaining |-> remaining, harvester |-> h, harvested |-> 0 ]

\* harvestUrchins(harvesters, urchins) from the k-th harvester on.
RECURSIVE harvestUrchins(_, _, _, _, _, _, _, _)
harvestUrchins(k, hIds, remaining, hs, us, p, lucky, harvestedCount) ==
  IF k > Len(hIds)
  THEN [ remainingUrchins |-> remaining, harvestedCount |-> harvestedCount, harvesters |-> hs ]
  ELSE LET t == HarvesterTurn(hs[hIds[k]], remaining, us, p, lucky[k])
       IN harvestUrchins(k + 1, hIds, t.remaining, [hs EXCEPT ![hIds[k]] = t.harvester],
                         us, p, lucky, harvestedCount + t.harvested)

(* ------------------------------------------------------------------ *)
(* updateCorals                                                       *)
(* ------------------------------------------------------------------ *)
\* A density test that also passes at 0.5.
DensityAtMostHalf(count) == 2 * count <= gridWidth * gridHeight

\* urchinDensity < 0.5, with urchinDensity = count / (gridWidth * gridHeight)
LowDensity(count) == 2 * count < gridWidth * gridHeight

\* A healing that sets the status to healthy whatever the health.
HealedUnconditionally(c, p) ==
  [ c EXCEPT !.health = Min(FullHealth, c.health + p.coralHealingRate),
             !.status = "healthy" ]

\* The healing branch of updateCorals for a coral that is not dead.
Healed(c, p) ==
  LET h == Min(FullHealth, c.health + p.coralHealingRate)
  IN [ c EXCEPT !.health = h,
                !.status = IF h > p.coralDegradationThreshold THEN "healthy" ELSE @ ]

\* An algae growth without the Math.min cap.
AlgaeGrownUncapped(c, p) ==
  IF c.status = "degraded" \/ c.status = "dead"
  THEN [c EXCEPT !.algaeLevel = @ + p.algaeGrowthRate]
  ELSE c

\* The algae branch of updateCorals.
AlgaeGrown(c, p) ==
  IF c.status = "degraded" \/ c.status = "dead"
  THEN [c EXCEPT !.algaeLevel = Min(p.maxAlgaeDensity, @ + p.algaeGrowthRate)]
  ELSE c

\* An update without the guard that skips dead corals.
updateCoralUnguarded(c, lowDensity, p) ==
  AlgaeGrown(IF lowDensity THEN Healed(c, p) ELSE c, p)

\* The body of the forEach of updateCorals for one coral.
updateCoral(c, lowDensity, p) ==
  IF c.status # "dead"
  THEN AlgaeGrown(IF lowDensity THEN Healed(c, p) ELSE c, p)
  ELSE c

updateCorals(coralIds, cs, lowDensity, p) ==
  [id \in DOMAIN cs |->
     IF id \in Range(coralIds) THEN updateCoral(cs[id], lowDensity, p) ELSE cs[id]]

(* ------------------------------------------------------------------ *)
(* Statistics and history                                             *)
(* ------------------------------------------------------------------ *)
CountWhere(ids, Test(_)) == Len(SelectSeq(ids, Test))

\* corals.reduce((sum, c) => sum + c.algaeLevel, 0)
AlgaeSum(coralIds, cs) == SumSeq([k \in 1..Len(coralIds) |-> cs[coralIds[k]].algaeLevel])

\* The object passed to setStats.
Snapshot(w, us, cs, harvestedCount) ==
  [ juvenileUrchins |-> CountWhere(w.seaUrchins, LAMBDA id : ~us[id].isAdult),
    adultUrchins |-> CountWhere(w.seaUrchins, LAMBDA id : us[id].isAdult),
    totalUrchins |-> CountWhere(w.seaUrchins, LAMBDA id : ~us[id].isAdult)
                       + CountWhere(w.seaUrchins, LAMBDA id : us[id].isAdult),
    healthyCorals |-> CountWhere(w.corals, LAMBDA id : cs[id].status = "healthy"),
    degradedCorals |-> CountWhere(w.corals, LAMBDA id : cs[id].status = "degraded"),
    deadCorals |-> CountWhere(w.corals, LAMBDA id : cs[id].status = "dead"),
    algaeCoverage |-> Quotient(AlgaeSum(w.corals, cs) * 100, Len(w.corals)),
    harvestedUrchins |-> harvestedCount ]

\* A history point is recorded at tick t.
Records(t, p) ==
  /\ p.dataRecordingFrequency > 0
  /\ t % p.dataRecordingFrequency = 0
  /\ t > 0
  /\ t % (p.dataRecordingFrequency * (IF p.turboMode THEN 5 ELSE 1)) = 0

historyLimit(p) ==
  LET effectiveFrequency == p.dataRecordingFrequency * (IF p.turboMode THEN 5 ELSE 1)
      expectedPoints == IF p.enableTickLimit /\ p.tickLimit > 0
                        THEN Ceil(p.tickLimit, effectiveFrequency)
                        ELSE Ceil(DefaultExpectedTicks, effectiveFrequency)
  IN Max(MinHistoryLimit, expectedPoints * 2)

Appended(s, v, p) == SliceLast(Append(s, v), historyLimit(p))

\* The history after the point of tick t is appended.
RecordedHistory(h, t, snap, w, p) ==
  [ ticks |-> Appended(h.ticks, t, p),
    urchinPop |-> Appended(h.urchinPop, snap.totalUrchins, p),
    coralHealth |-> Appended(h.coralHealth,
                             IF Len(w.corals) > 0
                             THEN Quotient(snap.healthyCorals * 100, Len(w.corals))
                             ELSE Number(0), p),
    algaeCoverage |-> Appended(h.algaeCoverage, snap.algaeCoverage, p) ]

RecordedDetail(d, snap, p) ==
  [ healthyCorals |-> Appended(d.healthyCorals, snap.healthyCorals, p),
    degradedCorals |-> Appended(d.degradedCorals, snap.degradedCorals, p),
    deadCorals |-> Appended(d.deadCorals, snap.deadCorals, p),
    juvenileUrchins |-> Appended(d.juvenileUrchins, snap.juvenileUrchins, p),
    adultUrchins |-> Appended(d.adultUrchins, snap.adultUrchins, p),
    harvestedTotal |-> Appended(d.harvestedTotal, snap.harvestedUrchins, p) ]

\* The updaters passed to setHistory and setDetailedHistory run when React
\* renders, in the order they were queued.  Each was built by a step and holds
\* that step's counts, coral array and parameters; tickRef.current and
\* statsAccumRef.current.harvestedCount are read when the updater runs.  (React
\* may run the first updater queued on an idle component at once; in the runs
\* explored a recording step either is the last of its callback or has called
\* setTick first, so both orders store the same values.)
RECURSIVE RenderedHistory(_, _, _)
RenderedHistory(h, points, tickNow) ==
  IF points = <<>> THEN h
  ELSE RenderedHistory(RecordedHistory(h, tickNow, Head(points).snap, Head(points).world,
                                       Head(points).params),
                       Tail(points), tickNow)

RECURSIVE RenderedDetail(_, _, _)
RenderedDetail(d, points, harvestedNow) ==
  IF points = <<>> THEN d
  ELSE RenderedDetail(RecordedDetail(d, [Head(points).snap EXCEPT
                                            !.harvestedUrchins = harvestedNow],
                                     Head(points).params),
                      Tail(points), harvestedNow)

\* The ticks of the steps that queued the retained points.
RECURSIVE RenderedAt(_, _)
RenderedAt(at, points) ==
  IF points = <<>> THEN at
  ELSE RenderedAt(Appended(at, Head(points).at, Head(points).params), Tail(points))

(* ------------------------------------------------------------------ *)
(* stepSimulation                                                     *)
(* ------------------------------------------------------------------ *)
\* The run is one whose steps have a single outcome and the user has done nothing.
Quiet == NoRandomOutcome(params) /\ opCount = 0

Horizon == IF Quiet THEN MaxTickDeep ELSE MaxTick

\* The harvester store after the move-harvesters loop; hperturb[k] is the
\* k-th harvester's pair of perturbations.
MovedHarvesters(hIds, hs, speed, hperturb) ==
  [id \in DOMAIN hs |->
     IF id \in Range(hIds)
     THEN LET k == CHOOSE k \in DOMAIN hIds : hIds[k] = id
          IN moveAgent(hs[id], speed, hperturb[k][1], hperturb[k][2])
     ELSE hs[id]]

\* The tick limit is enabled and tick t has reached it.
LimitReached(t, p) == p.enableTickLimit /\ p.tickLimit > 0 /\ t >= p.tickLimit

\* The calls of stepSimulation one callback of the loop makes: loop or turboLoop.
BatchSize(p) == IF p.turboMode THEN p.speedMultiplier * 10 ELSE p.speedMultiplier

\* A callback of the loop that steps without looking at playingRef.
LoopFiresUnchecked == batchLeft = 0 /\ pending = NoPending

\* The animation frame or the turbo timer fires while the simulation plays.
\* React renders what a callback queued before the next callback runs.
LoopFires == batchLeft = 0 /\ playingRef /\ pending = NoPending

\* The tail of stepSimulation, from the tick increment on, and the state the
\* call leaves: remaining are the urchins left, us, hs and cs the three stores,
\* starved, born and harvestedCount what the call removed and added, adults the
\* adults reproduceUrchins filtered and grown the array given to harvestUrchins.
StepResult(remaining, us, hs, cs, starved, born, harvestedCount, adults, grown) ==
  \E w \in {[agentsRef EXCEPT !.seaUrchins = remaining]} :
  \E snap \in {Snapshot(w, us, cs, statsAccumRef.harvestedCount + harvestedCount)} :
     /\ agentsRef' = w
     /\ agents' = IF refIsState THEN w ELSE agents
     /\ urchinObj' = Reachable(us, w.seaUrchins, IF refIsState THEN <<>> ELSE agents.seaUrchins)
     /\ harvesterObj' = hs
     /\ coralObj' = cs
     /\ statsAccumRef' = [harvestedCount |-> statsAccumRef.harvestedCount + harvestedCount]
     /\ tickRef' = tickRef + 1
     /\ isRunning' = IF LimitReached(tickRef + 1, params) THEN FALSE ELSE isRunning
     /\ playingRef' = IF LimitReached(tickRef + 1, params) THEN FALSE ELSE playingRef
     /\ pending' =
          [ tick |-> IF (tickRef + 1) % StatsPeriod = 0 THEN <<tickRef + 1>> ELSE pending.tick,
            stats |-> IF (tickRef + 1) % StatsPeriod = 0 THEN <<snap>> ELSE pending.stats,
            points |-> IF Records(tickRef + 1, params)
                       THEN Append(pending.points,
                                   [ at |-> tickRef + 1, snap |-> snap, world |-> w,
                                     params |-> params ])
                       ELSE pending.points ]
     /\ lastStep' = [ called |-> TRUE, before |-> Len(agentsRef.seaUrchins),
                      starved |-> starved, born |-> born, harvested |-> harvestedCount,
                      adults |-> Len(adults), grown |-> grown,
                      pool |-> Restrict(us, Range(grown)) ]
     /\ lastOp' = Op("stepSimulation", 0)
     /\ UNCHANGED << tick, stats, history, detailedHistory, recordedAt >>

\* One call of stepSimulation by the loop: the first call of a callback, or a
\* later call of the callback's for loop, which does not look at playingRef.
\* The call is explored while the tick is below the horizon and its births, if
\* it has any, leave at most MaxUrchins urchins.
stepSimulation ==
  /\ tickRef < Horizon
  /\ batchLeft > 0 \/ LoopFires
  /\ batchLeft' = (IF batchLeft > 0 THEN batchLeft ELSE BatchSize(params)) - 1
  /\ \E perturb \in [1..Len(agentsRef.seaUrchins) -> PerturbationDraws(params.urchinSpeed)] :
     \E g \in {MoveAgeGraze(1, agentsRef, perturb, params, urchinObj, coralObj)} :
     \E alive \in {Survivors(agentsRef.seaUrchins, g.urchins)} :
     \E adults \in {Adults(alive, g.urchins)} :
     \E draws \in [{id \in Range(adults) : MaySpawn(id, adults, g.urchins, tickRef, params)}
                     -> SpawnDraws(params)] :
     \E r \in {reproduceUrchins(alive, g.urchins, tickRef, params, draws)} :
     \E grown \in {alive \o NewIds(nextId, Len(r.newUrchins))} :
     \E us \in {r.urchins @@ NewObjects(nextId, r.newUrchins)} :
       /\ Len(r.newUrchins) > 0 => Len(grown) <= MaxUrchins
       /\ nextId' = nextId + Len(r.newUrchins)
       /\ \E hperturb \in [1..Len(agentsRef.harvesters) ->
                              PerturbationDraws(params.harvesterSpeed)],
              lucky \in [1..Len(agentsRef.harvesters) ->
                           Chance(Scaled(params.harvestingRate, 1, 10))] :
          \E h \in {harvestUrchins(1, agentsRef.harvesters, grown,
                                    MovedHarvesters(agentsRef.harvesters, harvesterObj,
                                                    params.harvesterSpeed, hperturb),
                                    us, params, lucky, 0)} :
            StepResult(h.remainingUrchins, us, h.harvesters,
                       updateCorals(agentsRef.corals, g.corals,
                                    LowDensity(Len(h.remainingUrchins)), params),
                       CountWhere(agentsRef.seaUrchins, LAMBDA id : g.urchins[id].energy <= 0),
                       Len(r.newUrchins), h.harvestedCount, adults, grown)
  /\ UNCHANGED << params, refIsState, startTimer, presetTimer, opCount >>

\* React renders after a callback of the loop: the queued state updates are
\* applied, then the effect of lines 117-119 copies a changed tick into tickRef.
Render ==
  /\ batchLeft = 0
  /\ pending # NoPending
  /\ \E t \in {IF pending.tick = <<>> THEN tick ELSE pending.tick[1]} :
       /\ tick' = t
       /\ tickRef' = IF t # tick THEN t ELSE tickRef
  /\ stats' = IF pending.stats = <<>> THEN stats ELSE pending.stats[1]
  /\ history' = RenderedHistory(history, pending.points, tickRef)
  /\ detailedHistory' = RenderedDetail(detailedHistory, pending.points,
                                       statsAccumRef.harvestedCount)
  /\ recordedAt' = RenderedAt(recordedAt, pending.points)
  /\ pending' = NoPending
  /\ lastStep' = NoStep
  /\ lastOp' = Op("render", Len(pending.points))
  /\ UNCHANGED << params, agents, agentsRef, refIsState, urchinObj, harvesterObj, coralObj,
                  nextId, statsAccumRef, isRunning, playingRef, batchLeft, startTimer,
                  presetTimer, opCount >>

(* ------------------------------------------------------------------ *)
(* updateUrchinCount, updateHarvesterCount                            *)
(* ------------------------------------------------------------------ *)
\* No callback of the loop is running and nothing waits for a render.
Idle == batchLeft = 0 /\ pending = NoPending

OpAllowed == opCount < MaxOps /\ tickRef < MaxTick /\ Idle

\* The arrays shuffled.slice(0, n) can be: n of the urchins, in any order.
ShuffledSlices(ids, n) ==
  {s \in [1..n -> Range(ids)] : \A i, j \in 1..n : i # j => s[i] # s[j]}

\* An object with the two arrays and nothing of prevAgents.
SpreadNothing(prevAgents, us, hs) == [seaUrchins |-> us, harvesters |-> hs, corals |-> <<>>]

\* { ...prevAgents, seaUrchins: us } or { ...prevAgents, harvesters: hs }
Spread(prevAgents, us, hs) == [prevAgents EXCEPT !.seaUrchins = us, !.harvesters = hs]

\* What setAgents leaves when its updater returns a new object with the urchin
\* array us and the harvester array hs; fresh are the new urchin objects and
\* freshH the new harvester objects.  After a click or a slider change React
\* runs the agentsRef effect before it returns to the event loop (flushed);
\* after an update made from a timer the effect runs later, and agentsRef keeps
\* the old object until then.
Resized(us, hs, fresh, freshH, flushed) ==
  /\ agents' = Spread(agents, us, hs)
  /\ agentsRef' = IF flushed THEN Spread(agents, us, hs) ELSE agentsRef
  /\ refIsState' = flushed
  /\ urchinObj' = Reachable(urchinObj @@ NewObjects(nextId, fresh), us,
                            IF flushed THEN <<>> ELSE agentsRef.seaUrchins)
  /\ harvesterObj' = harvesterObj @@ NewObjects(nextId, freshH)
  /\ nextId' = nextId + Len(fresh) + Len(freshH)
  /\ opCount' = opCount + 1
  /\ lastStep' = NoStep
  /\ UNCHANGED << params, coralObj, tickRef, tick, statsAccumRef, stats,
                  history, detailedHistory, isRunning, playingRef, batchLeft, pending,
                  startTimer, recordedAt >>

\* updateUrchinCount, called by the +10 and -10 buttons.
updateUrchinCount(newCount) ==
  /\ OpAllowed
  /\ UNCHANGED presetTimer
  /\ lastOp' = Op("updateUrchinCount", newCount)
  /\ LET currentCount == Len(agents.seaUrchins)
     IN \/ /\ newCount > currentCount
           /\ \E fresh \in [1..(newCount - currentCount) -> FreshUrchins(params)] :
                Resized(agents.seaUrchins \o NewIds(nextId, Len(fresh)), agents.harvesters,
                        fresh, <<>>, TRUE)
        \/ /\ newCount < currentCount
           /\ \E kept \in ShuffledSlices(agents.seaUrchins, newCount) :
                Resized(kept, agents.harvesters, <<>>, <<>>, TRUE)

\* The last n harvesters.
LastHarvesters(harvesters, n) == SubSeq(harvesters, Len(harvesters) - n + 1, Len(harvesters))

\* prevAgents.harvesters.slice(0, newCount), for newCount below the length
FirstHarvesters(harvesters, n) == SubSeq(harvesters, 1, n)

\* updateHarvesterCount with a count other than the current one, called by the
\* slider (flushed) or by the timer of applyPreset.
updateHarvesterCount(newCount, flushed) ==
  /\ lastOp' = Op("updateHarvesterCount", newCount)
  /\ LET currentCount == Len(agents.harvesters)
     IN \/ /\ newCount > currentCount
           /\ \E fresh \in [1..(newCount - currentCount) -> FreshHarvesters(params)] :
                Resized(agents.seaUrchins, agents.harvesters \o NewIds(nextId, Len(fresh)),
                        <<>>, fresh, flushed)
        \/ /\ newCount < currentCount
           /\ Resized(agents.seaUrchins, FirstHarvesters(agents.harvesters, newCount),
                      <<>>, <<>>, flushed)

\* The harvester slider.
HarvesterSlider(newCount) ==
  /\ OpAllowed
  /\ updateHarvesterCount(newCount, TRUE)
  /\ UNCHANGED presetTimer

\* A preset in the manner of lines 123-165, with counts within the bounds: two
\* urchins, one harvester, corals everywhere, the rates of the balanced preset.
SmallPreset ==
  [ initialUrchins |-> 2, harvesterCount |-> 1, initialCoralCoverage |-> 100,
    grazingRate |-> 500, harvestingRate |-> 1500 ]

\* { ...prev, ...preset.params }
Merged(prev, presetParams) ==
  [k \in DOMAIN prev |-> IF k \in DOMAIN presetParams THEN presetParams[k] ELSE prev[k]]

\* A preset button.  initializeSimulation is the one of the render the button
\* belongs to, so it draws the world with the parameters of that render; the
\* merged parameters take effect with the next render.
applyPreset(preset) ==
  /\ OpAllowed
  /\ params' = Merged(params, preset)
  /\ presetTimer' = Append(presetTimer, preset.harvesterCount)
  /\ \E us \in initializeUrchins(params), hs \in initializeHarvesters(params),
        cs \in initializeCorals(params) :
       initializeSimulation(us, hs, cs)
  /\ opCount' = opCount + 1
  /\ lastStep' = NoStep
  /\ lastOp' = Op("initializeSimulation", 2)
  /\ UNCHANGED << batchLeft, startTimer >>

\* setTimeout(() => updateHarvesterCount(preset.params.harvesterCount), 50) of
\* applyPreset fires.  With the count the world already has the updater returns
\* prevAgents and nothing changes.
PresetTimerFires ==
  /\ presetTimer # <<>>
  /\ Idle
  /\ presetTimer' = Tail(presetTimer)
  /\ IF Head(presetTimer) = Len(agents.harvesters)
     THEN /\ lastStep' = NoStep
          /\ lastOp' = Op("updateHarvesterCount", Head(presetTimer))
          /\ UNCHANGED << params, agents, agentsRef, refIsState, urchinObj, harvesterObj,
                          coralObj, nextId, tickRef, tick, statsAccumRef, stats, history,
                          detailedHistory, isRunning, playingRef, batchLeft, pending,
                          startTimer, recordedAt, opCount >>
     ELSE updateHarvesterCount(Head(presetTimer), FALSE)

\* The Reset button.
Reset ==
  /\ OpAllowed
  /\ \E us \in initializeUrchins(params), hs \in initializeHarvesters(params),
        cs \in initializeCorals(params) :
       initializeSimulation(us, hs, cs)
  /\ opCount' = opCount + 1
  /\ lastStep' = NoStep
  /\ lastOp' = Op("initializeSimulation", 0)
  /\ UNCHANGED << params, batchLeft, startTimer, presetTimer >>

\* The Play / Pause button.  At a reached tick limit it resets and starts the
\* run 100 ms later; otherwise it toggles isRunning, and the effect of lines
\* 113-115 copies isRunning into playingRef.  Starting a paused run is not
\* counted as an operation.
TogglePlay ==
  /\ Idle
  /\ IF params.enableTickLimit /\ tick >= params.tickLimit /\ ~isRunning
     THEN /\ opCount < MaxOps
          /\ \E us \in initializeUrchins(params), hs \in initializeHarvesters(params),
                cs \in initializeCorals(params) :
               initializeSimulation(us, hs, cs)
          /\ startTimer' = TRUE
          /\ opCount' = opCount + 1
          /\ lastOp' = Op("initializeSimulation", 1)
          /\ UNCHANGED << params, batchLeft, presetTimer >>
     ELSE /\ isRunning => OpAllowed
          /\ isRunning' = ~isRunning
          /\ playingRef' = ~isRunning
          /\ opCount' = IF isRunning THEN opCount + 1 ELSE opCount
          /\ lastOp' = Op("setIsRunning", 0)
          /\ UNCHANGED << params, agents, agentsRef, refIsState, urchinObj, harvesterObj,
                          coralObj, nextId, tickRef, tick, statsAccumRef, stats, history,
                          detailedHistory, batchLeft, pending, startTimer, presetTimer,
                          recordedAt >>
  /\ lastStep' = NoStep

\* setTimeout(() => setIsRunning(true), 100) of the Play button fires.
StartTimerFires ==
  /\ startTimer
  /\ Idle
  /\ startTimer' = FALSE
  /\ isRunning' = TRUE
  /\ playingRef' = TRUE
  /\ lastStep' = NoStep
  /\ lastOp' = Op("setIsRunning", 1)
  /\ UNCHANGED << params, agents, agentsRef, refIsState, urchinObj, harvesterObj,
                  coralObj, nextId, tickRef, tick, statsAccumRef, stats, history,
                  detailedHistory, batchLeft, pending, presetTimer, recordedAt, opCount >>

\* The history holds one point more than the smallest history limit.
BufferJustOver == Len(history.ticks) = MinHistoryLimit + 1

\* The Enable Tick Limit checkbox.  It is explored before MaxTick, as an
\* operation, and in a long run at the moment the buffer is just over the
\* smallest limit.
setEnableTickLimit(checked) ==
  /\ Idle
  /\ checked # params.enableTickLimit
  /\ \/ opCount < MaxOps /\ tickRef < MaxTick
     \/ BufferJustOver
  /\ params' = [params EXCEPT !.enableTickLimit = checked]
  /\ opCount' = IF tickRef < MaxTick THEN opCount + 1 ELSE opCount
  /\ lastStep' = NoStep
  /\ lastOp' = Op("setParams", 0)
  /\ UNCHANGED << agents, agentsRef, refIsState, urchinObj, harvesterObj, coralObj,
                  nextId, tickRef, tick, statsAccumRef, stats, history, detailedHistory,
                  isRunning, playingRef, batchLeft, pending, startTimer, presetTimer,
                  recordedAt >>

\* useEffect(() => { agentsRef.current = agents }, [agents])
SyncAgentsRef ==
  /\ ~refIsState
  /\ batchLeft = 0
  /\ agentsRef' = agents
  /\ refIsState' = TRUE
  /\ urchinObj' = Restrict(urchinObj, Range(agents.seaUrchins))
  /\ coralObj' = Restrict(coralObj, Range(agents.corals))
  /\ lastStep' = NoStep
  /\ lastOp' = Op("effect", 0)
  /\ UNCHANGED << params, agents, harvesterObj, nextId, tickRef, tick, statsAccumRef, stats,
                  history, detailedHistory, isRunning, playingRef, batchLeft, pending,
                  startTimer, presetTimer, recordedAt, opCount >>

(* ------------------------------------------------------------------ *)
(* Specification                                                      *)
(* ------------------------------------------------------------------ *)
\* The component after mounting: initializeSimulation has run with the chosen
\* parameters and the effects have copied the state into the refs.
Init ==
  \E p \in ParamChoices :
    \E us \in initializeUrchins(p), hs \in initializeHarvesters(p),
       cs \in initializeCorals(p) :
      /\ params = p
      /\ agents = NewAgents(0, us, hs, cs)
      /\ agentsRef = NewAgents(0, us, hs, cs)
      /\ refIsState = TRUE
      /\ urchinObj = NewObjects(0, us)
      /\ harvesterObj = NewObjects(Len(us), hs)
      /\ coralObj = NewObjects(Len(us) + Len(hs), cs)
      /\ nextId = Len(us) + Len(hs) + Len(cs)
      /\ tickRef = 0
      /\ tick = 0
      /\ statsAccumRef = [harvestedCount |-> 0]
      /\ stats = EmptyStats
      /\ history = EmptyHistory
      /\ detailedHistory = EmptyDetailedHistory
      /\ isRunning = FALSE
      /\ playingRef = FALSE
      /\ batchLeft = 0
      /\ pending = NoPending
      /\ startTimer = FALSE
      /\ presetTimer = <<>>
      /\ recordedAt = <<>>
      /\ lastStep = NoStep
      /\ lastOp = Op("initializeSimulation", 0)
      /\ opCount = 0

\* The loop's calls of stepSimulation and the render that follows a callback,
\* the user's resizes by one agent, the Reset, Play and preset buttons, the tick
\* limit checkbox, the two timers and the agentsRef effect.
Next ==
  \/ stepSimulation
  \/ Render
  \/ TogglePlay
  \/ StartTimerFires
  \/ \E checked \in BOOLEAN : setEnableTickLimit(checked)
  \/ \E n \in 0..MaxUrchins :
       /\ Abs(n - Len(agents.seaUrchins)) = 1
       /\ updateUrchinCount(n)
  \/ \E n \in 0..MaxHarvesters :
       /\ Abs(n - Len(agents.harvesters)) = 1
       /\ HarvesterSlider(n)
  \/ applyPreset(SmallPreset)
  \/ PresetTimerFires
  \/ Reset
  \/ SyncAgentsRef

Spec == Init /\ [][Next]_vars

(* ------------------------------------------------------------------ *)
(* Crowded worlds                                                     *)
(* ------------------------------------------------------------------ *)
\* The urchin counts around the one at which urchinDensity is 0.5.
CrowdSizes ==
  ((gridWidth * gridHeight) \div 2 - CrowdMargin)..((gridWidth * gridHeight) \div 2 + CrowdMargin)

\* Where the crowd sits: out of reach of every coral and harvester drawn.
CrowdSpot == <<700, 500>>

\* One urchin of the crowd, as updateUrchinCount can push it: a juvenile at rest.
CrowdUrchin ==
  [ x |-> CrowdSpot[1], y |-> CrowdSpot[2], vx |-> 0, vy |-> 0,
    age |-> 0, maturityTime |-> MinMaturity, isAdult |-> FALSE,
    energy |-> InitialEnergy, lastSpawn |-> 0 ]

\* A world filled by updateUrchinCount to n urchins, of which the first is
\* near the corals, with the random parameters, after the effects have run and
\* Play was pressed.
InitCrowded ==
  \E n \in CrowdSizes :
    \E first \in FreshUrchins(RandomParams), hs \in initializeHarvesters(RandomParams),
       cs \in initializeCorals(RandomParams) :
      \E us \in {<<first>> \o [k \in 1..(n - 1) |-> CrowdUrchin]} :
        /\ params = RandomParams
        /\ agents = NewAgents(0, us, hs, cs)
        /\ agentsRef = NewAgents(0, us, hs, cs)
        /\ refIsState = TRUE
        /\ urchinObj = NewObjects(0, us)
        /\ harvesterObj = NewObjects(Len(us), hs)
        /\ coralObj = NewObjects(Len(us) + Len(hs), cs)
        /\ nextId = Len(us) + Len(hs) + Len(cs)
        /\ tickRef = 0
        /\ tick = 0
        /\ statsAccumRef = [harvestedCount |-> 0]
        /\ stats = EmptyStats
        /\ history = EmptyHistory
        /\ detailedHistory = EmptyDetailedHistory
        /\ isRunning = TRUE
        /\ playingRef = TRUE
        /\ batchLeft = 0
        /\ pending = NoPending
        /\ startTimer = FALSE
        /\ presetTimer = <<>>
        /\ recordedAt = <<>>
        /\ lastStep = NoStep
        /\ lastOp = Op("setIsRunning", 0)
        /\ opCount = 0

\* The loop's steps and the renders that follow them.
NextCrowded ==
  \/ stepSimulation
  \/ Render

SpecCrowded == InitCrowded /\ [][NextCrowded]_vars

(* ------------------------------------------------------------------ *)
(* Properties                                                         *)
(* ------------------------------------------------------------------ *)
RECURSIVE SumOver(_, _)
SumOver(S, f) ==
  IF S = {} THEN 0
  ELSE LET id == CHOOSE id \in S : TRUE
       IN f[id].harvestCount + SumOver(S \ {id}, f)

\* C1: after a call of stepSimulation the urchin count is the count before the
\* call, minus the urchins the starvation filter removed, minus the urchins
\* harvested, plus the newborns pushed.
C1_PopulationReconciles ==
  lastStep.called =>
    Len(agentsRef.seaUrchins)
      = lastStep.before - lastStep.starved - lastStep.harvested + lastStep.born

\* A step in which urchins were both born and harvested.
C1_Witness == lastStep.called /\ lastStep.born > 0 /\ lastStep.harvested > 0

\* C2 as stated: the cumulative harvested counter equals the sum of harvestCount
\* over the harvesters currently in the world.
C2_CounterIsCurrentSum ==
  statsAccumRef.harvestedCount = SumOver(Range(agentsRef.harvesters), harvesterObj)

\* C2 amended: the cumulative harvested counter equals the sum of harvestCount
\* over every harvester created since the reset, those updateHarvesterCount has
\* removed included; so it is never less than the sum over the current ones.
C2_CounterIsSumOfAllCreated ==
  /\ statsAccumRef.harvestedCount = SumOver(DOMAIN harvesterObj, harvesterObj)
  /\ Range(agentsRef.harvesters) \subseteq DOMAIN harvesterObj
  /\ statsAccumRef.harvestedCount >= SumOver(Range(agentsRef.harvesters), harvesterObj)

\* A harvester that has harvested is no longer in the world.
C2_Witness ==
  \E id \in DOMAIN harvesterObj :
    /\ id \notin Range(agentsRef.harvesters)
    /\ id \notin Range(agents.harvesters)
    /\ harvesterObj[id].harvestCount > 0

\* C3: no action sets the isAdult of an urchin it keeps from true back to false.
C3_AdultStaysAdult ==
  [][\A id \in DOMAIN urchinObj \cap DOMAIN urchinObj' :
       urchinObj[id].isAdult => urchinObj'[id].isAdult]_vars

\* An urchin that matured during the run and has been stepped since.
C3_Witness ==
  \E id \in Range(agentsRef.seaUrchins) :
    /\ urchinObj[id].isAdult
    /\ urchinObj[id].maturityTime = MinMaturity
    /\ urchinObj[id].age > MinMaturity
    /\ urchinObj[id].age < MaxInitialAge

\* C4: every urchin has isAdult = (age >= maturityTime).
C4_AdultIffMature ==
  \A id \in DOMAIN urchinObj :
    urchinObj[id].isAdult = (urchinObj[id].age >= urchinObj[id].maturityTime)

\* An urchin on the step at which its age reaches its maturity time, next to a
\* newborn.
C4_Witness ==
  /\ \E id \in Range(agentsRef.seaUrchins) :
       urchinObj[id].isAdult /\ urchinObj[id].age = urchinObj[id].maturityTime
  /\ \E id \in Range(agentsRef.seaUrchins) :
       urchinObj[id].age = 0 /\ urchinObj[id].energy = OffspringEnergy

\* C5: every dead coral has health 0.
C5_DeadHasNoHealth ==
  \A id \in DOMAIN coralObj : coralObj[id].status = "dead" => coralObj[id].health = 0

\* A coral grazed to death.
C5_Witness ==
  \E id \in Range(agentsRef.corals) : coralObj[id].status = "dead"

\* C6 as stated: every healthy coral has health strictly greater than
\* coralDegradationThreshold, or health 100.
C6_HealthyAboveThreshold ==
  \A id \in DOMAIN coralObj :
    coralObj[id].status = "healthy" =>
      \/ coralObj[id].health > params.coralDegradationThreshold
      \/ coralObj[id].health = FullHealth

\* C6 amended: every healthy coral has health greater than or equal to
\* coralDegradationThreshold, or health 100.
C6_HealthyNotBelowThreshold ==
  \A id \in DOMAIN coralObj :
    coralObj[id].status = "healthy" =>
      \/ coralObj[id].health >= params.coralDegradationThreshold
      \/ coralObj[id].health = FullHealth

\* A healthy coral grazed down to exactly the threshold.
C6_Witness ==
  \E id \in Range(agentsRef.corals) :
    /\ coralObj[id].status = "healthy"
    /\ coralObj[id].health = params.coralDegradationThreshold

\* C7: no action changes the status of a dead coral, raises its health above 0
\* or lowers its algaeLevel.
C7_DeadIsTerminal ==
  [][\A id \in DOMAIN coralObj \cap DOMAIN coralObj' :
       coralObj[id].status = "dead" =>
         /\ coralObj'[id].status = "dead"
         /\ coralObj'[id].health <= 0
         /\ coralObj'[id].algaeLevel >= coralObj[id].algaeLevel]_vars

\* Every coral was dead at the first history point and the run has gone on to
\* a second one.
C7_Witness ==
  /\ Len(agentsRef.corals) > 0
  /\ Len(detailedHistory.deadCorals) >= 2
  /\ detailedHistory.deadCorals[1] = Len(agentsRef.corals)
  /\ \A id \in Range(agentsRef.corals) : coralObj[id].status = "dead"

\* C8, its part about dead corals: a step raises the algaeLevel of every coral
\* that is dead when the step begins by algaeGrowthRate, capped at maxAlgaeDensity.
C8_AlgaeGrowsOnDead ==
  [][tickRef' = tickRef + 1 =>
       \A id \in Range(agentsRef.corals) :
         coralObj[id].status = "dead" =>
           coralObj'[id].algaeLevel
             = Min(params.maxAlgaeDensity, coralObj[id].algaeLevel + params.algaeGrowthRate)]_vars

\* C9: every coral has 0 <= algaeLevel <= maxAlgaeDensity.
C9_AlgaeWithinBounds ==
  \A id \in DOMAIN coralObj :
    /\ coralObj[id].algaeLevel >= 0
    /\ coralObj[id].algaeLevel <= params.maxAlgaeDensity

\* A coral whose algae growth was cut at the cap.
C9_Witness ==
  \E id \in Range(agentsRef.corals) : coralObj[id].algaeLevel = params.maxAlgaeDensity

\* C10: in a world without corals every statistics snapshot and every history
\* point reports algae coverage 0 and 0 healthy, degraded and dead corals.
C10_NoCoralsReportZero ==
  Len(agentsRef.corals) = 0 =>
    /\ IsZero(stats.algaeCoverage)
    /\ stats.healthyCorals = 0 /\ stats.degradedCorals = 0 /\ stats.deadCorals = 0
    /\ \A i \in DOMAIN history.algaeCoverage : IsZero(history.algaeCoverage[i])
    /\ \A i \in DOMAIN detailedHistory.deadCorals :
         /\ detailedHistory.healthyCorals[i] = 0
         /\ detailedHistory.degradedCorals[i] = 0
         /\ detailedHistory.deadCorals[i] = 0

(* ------------------------------------------------------------------ *)
(* The driving loop and the tick counter                              *)
(* ------------------------------------------------------------------ *)
\* C11: with the tick limit enabled and N = tickLimit > 0, the loops execute
\* no more than N steps after a reset: the tick counter never exceeds N,
\* whatever the speed multiplier.
C11_TickNeverExceedsLimit ==
  (params.enableTickLimit /\ params.tickLimit > 0) => tickRef <= params.tickLimit

\* C12: between two resets tickRef.current never decreases, and every executed
\* step increases it by exactly 1, whatever the batch of steps the effect that
\* copies the tick state into tickRef follows.
C12_TickRefMonotonic ==
  [][ /\ lastOp'.name # "initializeSimulation" => tickRef' >= tickRef
      /\ lastOp'.name = "stepSimulation" => tickRef' = tickRef + 1 ]_vars

(* ------------------------------------------------------------------ *)
(* Agents                                                             *)
(* ------------------------------------------------------------------ *)
InWorld(a) == 0 <= a.x /\ a.x <= width /\ 0 <= a.y /\ a.y <= height

\* C13: after a completed step every urchin, the urchins born in that step
\* included, and every harvester is inside the world rectangle:
\* 0 <= x <= width and 0 <= y <= height.
C13_PositionsInWorld ==
  lastStep.called =>
    /\ \A id \in Range(agentsRef.seaUrchins) : InWorld(urchinObj[id])
    /\ \A id \in Range(agentsRef.harvesters) : InWorld(harvesterObj[id])

\* C14: after every completed step every urchin left in the population has
\* energy > 0: an urchin whose energy is 0 or less after the decrement and the
\* grazing of a step is removed in that step.
C14_SurvivorsHaveEnergy ==
  lastStep.called => \A id \in Range(agentsRef.seaUrchins) : urchinObj[id].energy > 0

\* A step has removed a starved urchin and left others.
C14_Witness ==
  lastStep.called /\ lastStep.starved > 0 /\ Len(agentsRef.seaUrchins) > 0

(* ------------------------------------------------------------------ *)
(* Corals between resets                                              *)
(* ------------------------------------------------------------------ *)
\* A coral without the three fields a step may change.
Fixed(coral) == [coral EXCEPT !.health = 0, !.algaeLevel = 0, !.status = "healthy"]

\* C15: the coral population is fixed between resets: no step and no resize
\* adds or removes a coral or changes a coral's id or position; only health,
\* algaeLevel and status of a coral change.
C15_CoralsFixedBetweenResets ==
  [][ lastOp'.name # "initializeSimulation" =>
        /\ agents'.corals = agents.corals
        /\ agentsRef'.corals = agentsRef.corals
        /\ \A id \in Range(agents.corals) : Fixed(coralObj'[id]) = Fixed(coralObj[id]) ]_vars

\* A resize has just run on a reef with a coral that a step has grazed.
C15_Witness ==
  /\ lastOp.name \in {"updateUrchinCount", "updateHarvesterCount"}
  /\ \E id \in Range(agents.corals) : coralObj[id].health < FullHealth

(* ------------------------------------------------------------------ *)
(* Reset                                                              *)
(* ------------------------------------------------------------------ *)
\* C16: whatever the state before it, initializeSimulation leaves the tick at
\* 0 (the tick state and tickRef.current), every history array empty, every
\* statistic 0, the harvest accumulator 0, every harvester with harvestCount
\* 0, every coral with health 100, algaeLevel 0 and status healthy, and the
\* simulation not running.
C16_ResetClearsRun ==
  lastOp.name = "initializeSimulation" =>
    /\ tick = 0 /\ tickRef = 0
    /\ \A f \in DOMAIN history : history[f] = <<>>
    /\ \A f \in DOMAIN detailedHistory : detailedHistory[f] = <<>>
    /\ pending.points = <<>> /\ pending.tick = <<>> /\ pending.stats = <<>>
    /\ \A f \in DOMAIN stats \ {"algaeCoverage"} : stats[f] = 0
    /\ IsZero(stats.algaeCoverage)
    /\ statsAccumRef.harvestedCount = 0
    /\ \A id \in Range(agents.harvesters) : harvesterObj[id].harvestCount = 0
    /\ \A id \in Range(agents.corals) :
          /\ coralObj[id].health = FullHealth
          /\ coralObj[id].algaeLevel = 0
          /\ coralObj[id].status = "healthy"
    /\ agentsRef = agents
    /\ ~isRunning /\ ~playingRef

\* The Reset button, or the Play button at the tick limit, has reset a run
\* that had made steps, and the new world has harvesters or corals.
C16_Witness ==
  /\ lastOp.name = "initializeSimulation"
  /\ opCount > 0
  /\ nextId > Len(agents.seaUrchins) + Len(agents.harvesters) + Len(agents.corals)
  /\ Len(agents.harvesters) + Len(agents.corals) > 0

(* ------------------------------------------------------------------ *)
(* History                                                            *)
(* ------------------------------------------------------------------ *)
\* C17: a history point is appended only at ticks t > 0 with
\* t mod dataRecordingFrequency = 0: every value stored in history.ticks is a
\* positive multiple of the recording frequency under which it was recorded.
C17_TicksAreMultiplesOfFrequency ==
  \A i \in 1..Len(history.ticks) :
    /\ history.ticks[i] > 0
    /\ history.ticks[i] % params.dataRecordingFrequency = 0

\* C18: the parallel history arrays (ticks, urchinPop, coralHealth,
\* algaeCoverage of history; healthyCorals, degradedCorals, deadCorals,
\* juvenileUrchins, adultUrchins, harvestedTotal of detailedHistory) have the
\* same length in every reachable state, and the entries at one index were
\* recorded at the same tick: the tick stored at an index is the tick of the
\* step that took the counts stored at that index.
C18_HistoryAligned ==
  /\ \A f \in DOMAIN history : Len(history[f]) = Len(history.ticks)
  /\ \A f \in DOMAIN detailedHistory : Len(detailedHistory[f]) = Len(history.ticks)
  /\ Len(recordedAt) = Len(history.ticks)
  /\ \A i \in 1..Len(history.ticks) : history.ticks[i] = recordedAt[i]

\* The array after is the array before with k values appended, cut to its
\* last limit entries: what is kept of before is its tail, in order.
EvictsOldestFirst(before, after, k, limit) ==
  /\ Len(after) = Min(limit, Len(before) + k)
  /\ \A j \in 1..(Len(after) - k) : after[j] = before[Len(before) - (Len(after) - k) + j]

\* C19: the history buffer is bounded and evicts oldest-first: after every
\* append each array is no longer than the historyLimit used for that append,
\* and what it holds are the most recently appended entries in their original
\* order.
C19_HistoryBoundedOldestFirst ==
  [][ (lastOp'.name = "render" /\ pending.points # <<>>) =>
        \E k \in {Len(pending.points)} :
        \E limit \in {historyLimit(pending.points[k].params)} :
          /\ \A f \in DOMAIN history :
                /\ Len(history'[f]) <= limit
                /\ EvictsOldestFirst(history[f], history'[f], k, limit)
          /\ \A f \in DOMAIN detailedHistory :
                /\ Len(detailedHistory'[f]) <= limit
                /\ EvictsOldestFirst(detailedHistory[f], detailedHistory'[f], k, limit)
          /\ \A i \in 1..k :
                history'.urchinPop[Len(history'.urchinPop) - k + i]
                  = pending.points[i].snap.totalUrchins ]_vars

\* An append has evicted the oldest points: the buffer is full and no longer
\* starts with the first point recorded.
C19_Witness ==
  /\ lastOp.name = "render"
  /\ Len(history.ticks) = historyLimit(params)
  /\ history.ticks[1] > params.dataRecordingFrequency

(* ------------------------------------------------------------------ *)
(* Population resizes                                                 *)
(* ------------------------------------------------------------------ *)
\* The array after keeps the array before and its objects, and appends new ones.
Grown(before, after, storeBefore, storeAfter) ==
  /\ SubSeq(after, 1, Len(before)) = before
  /\ \A id \in Range(before) : storeAfter[id] = storeBefore[id]
  /\ \A i \in (Len(before) + 1)..Len(after) : after[i] \notin DOMAIN storeBefore

\* C20: updateUrchinCount(n) and updateHarvesterCount(n) leave exactly n agents
\* of that kind.  Growing keeps the existing agents unchanged and appends fresh
\* ones (harvesters with harvestCount 0); shrinking the urchins leaves a subset
\* of the previous urchins; shrinking the harvesters keeps exactly the first n,
\* in order, with their harvestCount unchanged.
C20_ResizeLeavesExactlyN ==
  [][ /\ lastOp'.name = "updateUrchinCount" =>
            /\ Len(agents'.seaUrchins) = lastOp'.n
            /\ IF lastOp'.n > Len(agents.seaUrchins)
               THEN Grown(agents.seaUrchins, agents'.seaUrchins, urchinObj, urchinObj')
               ELSE /\ Range(agents'.seaUrchins) \subseteq Range(agents.seaUrchins)
                    /\ Cardinality(Range(agents'.seaUrchins)) = lastOp'.n
                    /\ \A id \in Range(agents'.seaUrchins) : urchinObj'[id] = urchinObj[id]
      /\ lastOp'.name = "updateHarvesterCount" =>
            /\ Len(agents'.harvesters) = lastOp'.n
            /\ IF lastOp'.n > Len(agents.harvesters)
               THEN /\ Grown(agents.harvesters, agents'.harvesters, harvesterObj, harvesterObj')
                    /\ \A i \in (Len(agents.harvesters) + 1)..lastOp'.n :
                          harvesterObj'[agents'.harvesters[i]].harvestCount = 0
               ELSE /\ agents'.harvesters = SubSeq(agents.harvesters, 1, lastOp'.n)
                    /\ \A id \in Range(agents'.harvesters) :
                          harvesterObj'[id].harvestCount = harvesterObj[id].harvestCount
    ]_vars

\* updateHarvesterCount has removed the second of two harvesters and kept the
\* first, which has harvested.
C20_Witness ==
  /\ lastOp = Op("updateHarvesterCount", 1)
  /\ Len(agentsRef.harvesters) = 2
  /\ harvesterObj[agents.harvesters[1]].harvestCount > 0

(* ------------------------------------------------------------------ *)
(* C21                                                                *)
(* ------------------------------------------------------------------ *)
\* The ids of the urchins the last step pushed to the population.
BornInStep == (nextId - lastStep.born + 1)..nextId

\* The urchins that spawned in the last step: the adults handed to
\* harvestUrchins whose lastSpawn is the tick the step read.
SpawnedInStep ==
  {id \in Range(lastStep.grown) :
     lastStep.pool[id].isAdult /\ lastStep.pool[id].lastSpawn = tickRef - 1}

\* C21: reproduction is evaluated against the population before it.  After a
\* step, its newborns are juveniles that hold the offspring energy in full (none
\* has paid for a spawn of its own) and none is among the urchins that spawned;
\* there is at most one newborn per urchin that spawned, and so no more
\* newborns than adults that survived the step's starvation cull.
C21_ReproductionReadsOldPopulation ==
  lastStep.called =>
    /\ BornInStep \subseteq Range(lastStep.grown)
    /\ \A id \in BornInStep :
         /\ ~lastStep.pool[id].isAdult
         /\ lastStep.pool[id].energy = OffspringEnergy
         /\ lastStep.pool[id].lastSpawn = tickRef - 1
         /\ id \notin SpawnedInStep
    /\ lastStep.born <= Cardinality(SpawnedInStep)
    /\ lastStep.born <= lastStep.adults

\* A step in which each of two adults had one offspring.
C21_Witness ==
  /\ lastStep.called
  /\ lastStep.adults = 2
  /\ lastStep.born = 2
  /\ Cardinality(SpawnedInStep) = 2

(* ------------------------------------------------------------------ *)
(* C22                                                                *)
(* ------------------------------------------------------------------ *)
\* The urchin object before had what a spawn at currentTick asks of a parent.
ReadyToSpawn(before, currentTick) ==
  /\ before.isAdult
  /\ before.energy > SpawnEnergy
  /\ currentTick - before.lastSpawn > SpawnCooldown

\* C22: across every step, an urchin whose lastSpawn changes was, after the
\* step's moving, ageing and grazing, an adult with more than 60 energy whose
\* last spawn lay more than 50 ticks before the tick the step read; the step
\* takes exactly 20 energy from it and sets its lastSpawn to that tick.  Every
\* other urchin keeps its lastSpawn and the energy grazing left it.  Two spawns
\* of one urchin are therefore at least 51 values of the tick counter apart.
C22_SpawnAfterCooldown ==
  [][lastStep'.called =>
       \E perturb \in [1..Len(agentsRef.seaUrchins) ->
                         PerturbationDraws(params.urchinSpeed)] :
         LET g == MoveAgeGraze(1, agentsRef, perturb, params, urchinObj, coralObj).urchins
         IN \A id \in Range(lastStep'.grown) \cap DOMAIN urchinObj :
              IF lastStep'.pool[id].lastSpawn # urchinObj[id].lastSpawn
              THEN /\ ReadyToSpawn(g[id], tickRef)
                   /\ lastStep'.pool[id].lastSpawn = tickRef
                   /\ lastStep'.pool[id].lastSpawn - urchinObj[id].lastSpawn >= SpawnCooldown + 1
                   /\ lastStep'.pool[id].energy = g[id].energy - SpawnCost
              ELSE lastStep'.pool[id].energy = g[id].energy]_vars

\* A step at a tick past the cooldown in which an urchin spawned and paid for it.
C22_Witness ==
  /\ lastStep.called
  /\ tickRef - 1 > SpawnCooldown
  /\ \E id \in SpawnedInStep :
       /\ lastStep.pool[id].lastSpawn = tickRef - 1
       /\ lastStep.pool[id].energy > SpawnEnergy - SpawnCost

(* ------------------------------------------------------------------ *)
(* C23                                                                *)
(* ------------------------------------------------------------------ *)
\* The urchins harvestUrchins was given and did not return.
Removed(step, remaining) == Range(step.grown) \ Range(remaining)

\* The harvesters whose harvestCount the step raised, of the harvesters hIds.
Takers(hIds, hsBefore, hsAfter) ==
  {h \in Range(hIds) : hsAfter[h].harvestCount # hsBefore[h].harvestCount}

\* The urchin u of the pool is one the harvester h may take.
InReach(h, u, p) == u.isAdult /\ Within(h.x, h.y, u.x, u.y, p.harvestRadius)

\* C23: across every step, no harvester's harvestCount moves by other than 0 or
\* 1, the urchins removed by harvesting are as many as the harvesters that
\* counted one and as the step's harvestedCount, hence at most the number of
\* harvesters, and they can be given one each to those harvesters so that each
\* is an adult strictly within harvestRadius of the harvester that took it.
\* The urchins left are the others, in their order.
C23_HarvestOnePerHarvester ==
  [][lastStep'.called =>
       LET removed == Removed(lastStep', agentsRef'.seaUrchins)
           takers == Takers(agentsRef.harvesters, harvesterObj, harvesterObj')
       IN /\ \A h \in Range(agentsRef.harvesters) :
               harvesterObj'[h].harvestCount - harvesterObj[h].harvestCount \in {0, 1}
          /\ Cardinality(removed) = lastStep'.harvested
          /\ Cardinality(takers) = lastStep'.harvested
          /\ lastStep'.harvested <= Len(agentsRef.harvesters)
          /\ \E f \in [takers -> removed] :
               /\ \A h1, h2 \in takers : h1 # h2 => f[h1] # f[h2]
               /\ \A h \in takers : InReach(harvesterObj'[h], lastStep'.pool[f[h]], params)
          /\ agentsRef'.seaUrchins =
               SelectSeq(lastStep'.grown, LAMBDA id : id \notin removed)]_vars

\* A step in which two harvesters had the same single adult in reach and one
\* of them took it.
C23_Witness ==
  /\ lastStep.called
  /\ lastStep.harvested = 1
  /\ Len(agentsRef.harvesters) = 2
  /\ \E id \in Removed(lastStep, agentsRef.seaUrchins) :
       \A h \in Range(agentsRef.harvesters) :
         InReach(harvesterObj[h], lastStep.pool[id], params)
  /\ SumOver(Range(agentsRef.harvesters), harvesterObj) = 1

(* ------------------------------------------------------------------ *)
(* C24                                                                *)
(* ------------------------------------------------------------------ *)
\* The position of harvester h in the array hIds.
TurnOf(hIds, h) == CHOOSE k \in DOMAIN hIds : hIds[k] = h

\* The urchins of the step's pool that harvester h could take at its turn,
\* when the urchins gone were taken before it.
Candidates(h, step, gone, p) ==
  {id \in Range(step.grown) \ gone : InReach(h, step.pool[id], p)}

\* C24: across every step, the removed urchins can be given to the harvesters
\* that counted one so that, taking the harvesters in array order, each one's
\* urchin is among the adults within harvestRadius that the earlier harvesters
\* left, and none of those is nearer to the harvester.
C24_HarvestTakesNearest ==
  [][lastStep'.called =>
       LET hIds == agentsRef.harvesters
           removed == Removed(lastStep', agentsRef'.seaUrchins)
           takers == Takers(hIds, harvesterObj, harvesterObj')
       IN \E f \in [takers -> removed] :
            \A h \in takers :
              LET gone == {f[e] : e \in {e \in takers : TurnOf(hIds, e) < TurnOf(hIds, h)}}
                  candidates == Candidates(harvesterObj'[h], lastStep', gone, params)
              IN /\ f[h] \in candidates
                 /\ \A c \in candidates :
                      DistSq(harvesterObj'[h].x, harvesterObj'[h].y,
                             lastStep'.pool[f[h]].x, lastStep'.pool[f[h]].y)
                        <= DistSq(harvesterObj'[h].x, harvesterObj'[h].y,
                                  lastStep'.pool[c].x, lastStep'.pool[c].y)]_vars

\* A step in which the only harvester had two adults in reach and took the
\* nearer one, which came later in the array.
C24_Witness ==
  /\ lastStep.called
  /\ lastStep.harvested = 1
  /\ Len(agentsRef.harvesters) = 1
  /\ \E h \in Range(agentsRef.harvesters) :
     \E id \in Removed(lastStep, agentsRef.seaUrchins) :
     \E other \in Candidates(harvesterObj[h], lastStep, {}, params) :
       /\ DistSq(harvesterObj[h].x, harvesterObj[h].y,
                 lastStep.pool[id].x, lastStep.pool[id].y)
            < DistSq(harvesterObj[h].x, harvesterObj[h].y,
                     lastStep.pool[other].x, lastStep.pool[other].y)
       /\ TurnOf(lastStep.grown, other) < TurnOf(lastStep.grown, id)

(* ------------------------------------------------------------------ *)
(* C25                                                                *)
(* ------------------------------------------------------------------ *)
\* No urchin of the world w is within grazing distance of coral c.
Ungrazed(c, w, us) ==
  \A id \in Range(w.seaUrchins) : ~Within(us[id].x, us[id].y, c.x, c.y, cellSize)

\* C25: across every step, with the density taken from the urchins the step
\* leaves after harvesting: a coral's health is higher after the step only if
\* the coral was not dead and twice that count is below the number of grid
\* cells, and then it is at most 100 and at most coralHealingRate above the old
\* health; a living coral no urchin can graze gains exactly
\* min(100, health + coralHealingRate).  When the density is 0.5 or more, no
\* coral's health rises and no coral becomes healthy.
C25_HealingGatedByDensity ==
  [][lastStep'.called =>
       LET low == 2 * Len(agentsRef'.seaUrchins) < gridWidth * gridHeight
       IN \A id \in Range(agentsRef.corals) :
            /\ coralObj'[id].health > coralObj[id].health =>
                 /\ coralObj[id].status # "dead"
                 /\ low
                 /\ coralObj'[id].health <= FullHealth
                 /\ coralObj'[id].health <= coralObj[id].health + params.coralHealingRate
            /\ (/\ low
                /\ coralObj[id].status # "dead"
                /\ params.urchinSpeed = 0
                /\ Ungrazed(coralObj[id], agentsRef, urchinObj)) =>
                 coralObj'[id].health
                   = Min(FullHealth, coralObj[id].health + params.coralHealingRate)
            /\ ~low =>
                 /\ coralObj'[id].health <= coralObj[id].health
                 /\ coralObj'[id].status = "healthy" => coralObj[id].status = "healthy"]_vars

\* A step that harvested one urchin of 601 and so left the density at 0.5: the
\* coral an urchin grazed in that step holds what the graze left, unhealed.
C25_Witness ==
  /\ lastStep.called
  /\ lastStep.harvested = 1
  /\ 2 * Len(agentsRef.seaUrchins) = gridWidth * gridHeight
  /\ \E id \in Range(agentsRef.corals) :
       /\ coralObj[id].status # "dead"
       /\ coralObj[id].health = FullHealth - params.grazingRate

(* ------------------------------------------------------------------ *)
(* C26                                                                *)
(* ------------------------------------------------------------------ *)
\* C26: the ticks held in history.ticks are strictly increasing: no tick is
\* recorded twice between two resets, whatever the recording frequency, the
\* speed multiplier and the mode.
C26_HistoryTicksIncrease ==
  \A i \in 1..(Len(history.ticks) - 1) : history.ticks[i] < history.ticks[i + 1]

(* ------------------------------------------------------------------ *)
(* C27                                                                *)
(* ------------------------------------------------------------------ *)
\* C27: a step that read a tick of at most 50 has no births, and every urchin
\* holds lastSpawn = 0 (it was created by a reset or a resize and has not
\* spawned) or a lastSpawn above 50 (the tick it was born at or last spawned at).
C27_NoBirthsBeforeCooldown ==
  /\ (lastStep.called /\ tickRef - 1 <= SpawnCooldown) => lastStep.born = 0
  /\ \A id \in DOMAIN urchinObj :
       urchinObj[id].lastSpawn = 0 \/ urchinObj[id].lastSpawn > SpawnCooldown

\* The step that read tick 50 left two adults within spawnRadius of each other
\* with more than 60 energy, and no newborn.
C27_Witness ==
  /\ lastStep.called
  /\ tickRef - 1 = SpawnCooldown
  /\ lastStep.born = 0
  /\ \E a, b \in Range(agentsRef.seaUrchins) :
       /\ a # b
       /\ urchinObj[a].isAdult /\ urchinObj[a].energy > SpawnEnergy
       /\ urchinObj[b].isAdult /\ urchinObj[b].energy > SpawnEnergy
       /\ Within(urchinObj[a].x, urchinObj[a].y, urchinObj[b].x, urchinObj[b].y,
                 params.spawnRadius)

(* ------------------------------------------------------------------ *)
(* C28                                                                *)
(* ------------------------------------------------------------------ *)
\* C28: a population resize never undoes a step.  When the effect installs the
\* resized agents state in agentsRef, the world read by later steps holds exactly
\* the urchins the last step left there: none that starved or was harvested
\* comes back, and none that was born is gone.
C28_ResizeKeepsSteps ==
  [][ lastOp'.name = "effect"
        => Range(agentsRef'.seaUrchins) = Range(agentsRef.seaUrchins) ]_vars

(* ------------------------------------------------------------------ *)
(* C29                                                                *)
(* ------------------------------------------------------------------ *)
\* C29: after applyPreset(preset), once all its queued updates have run (the
\* merged parameters are in place and its timer has called
\* updateHarvesterCount), the world was re-seeded from the preset's values: as
\* many urchins as preset.params.initialUrchins, as many harvesters as
\* preset.params.harvesterCount, and corals drawn with the preset's
\* initialCoralCoverage.  The parameters hold the preset's values by then.
C29_PresetSeedsFromPreset ==
  [][ ( /\ lastOp.name = "initializeSimulation"
        /\ lastOp.n = 2
        /\ presetTimer # <<>>
        /\ presetTimer' = <<>> )
        => /\ Len(agents'.seaUrchins) = params'.initialUrchins
           /\ Len(agents'.harvesters) = params'.harvesterCount
           /\ [i \in 1..Len(agents'.corals) |-> coralObj'[agents'.corals[i]]]
                \in initializeCorals(params') ]_vars

(* ------------------------------------------------------------------ *)
(* C30                                                                *)
(* ------------------------------------------------------------------ *)
\* The simulation is stopped: playingRef is false, no callback of the loop is
\* in its for loop and nothing a callback queued waits for a render.
Stopped == ~playingRef /\ batchLeft = 0 /\ pending = NoPending

\* The objects of store before that store after still holds are unchanged.
Untouched(before, after) ==
  \A id \in DOMAIN before \cap DOMAIN after : after[id] = before[id]

\* C30: after a reset issued while the simulation is running, in normal or in
\* turbo mode, no further step executes until the simulation is started again.
\* The reset leaves the simulation stopped with the tick counter at 0; as long
\* as it is stopped no call of stepSimulation is made, the tick counter does
\* not move (but to 0, by another reset) and no agent or coral is mutated; and
\* only setIsRunning(true) ends the stop.
C30_NoStepAfterReset ==
  [][ /\ (lastOp'.name = "initializeSimulation" /\ lastOp'.running)
           => (Stopped' /\ ~isRunning' /\ tickRef' = 0 /\ agentsRef' = agents')
      /\ Stopped
           => /\ ~lastStep'.called
              /\ tickRef' \in {tickRef, 0}
              /\ Untouched(urchinObj, urchinObj')
              /\ Untouched(harvesterObj, harvesterObj')
              /\ Untouched(coralObj, coralObj')
              /\ Stopped' \/ (playingRef' /\ lastOp'.name = "setIsRunning") ]_vars

\* The Reset button was pressed while the simulation was running, and the
\* simulation is stopped at tick 0 on the fresh world.
C30_Witness ==
  /\ lastOp.name = "initializeSimulation"
  /\ lastOp.n = 0
  /\ lastOp.running
  /\ Stopped
  /\ tickRef = 0
  /\ statsAccumRef.harvestedCount = 0
  /\ agentsRef = agents

====
